---- MODULE Spec2Model ----
(***************************************************************************)
(* Model of flair/models/word_tagger_model.py: class WordTagger, the       *)
(* token-level adapter between a batch of sentences and the generic       *)
(* classifier (flat tensor of token embeddings, flat list of gold labels, *)
(* flat list of prediction targets, CoNLL-style report, state dict).      *)
(*                                                                         *)
(* Python objects are modelled by reference: a token is an identifier, the *)
(* heap `tok` maps it to its text, its labels and its embeddings; a        *)
(* sentence is a sequence of token identifiers.                            *)
(***************************************************************************)
EXTENDS Integers, Sequences, FiniteSets, TLC

\* ------------------------------------------------------------------ bounds
\* most sentences in a batch
MaxSentences == 2
\* most tokens in a batch (over all its sentences)
MaxTokens == 3

\* ------------------------------------------------------------ input domains
\* the texts of the tokens, by token identifier
Texts == <<"The", "cat", "sat", "on", "the", "mat">>
\* the embedding providers a tagger may be constructed with
Providers == {"glove"}
\* the tag dictionaries a tagger may be constructed with
Dictionaries == {"upos"}
\* the tag_type names a tagger may be constructed with
TagTypes == {"pos", "ner"}
\* the gold values the corpus attaches (under "pos")
GoldValues == {"X"}
\* the values the classifier attaches (under "predicted")
PredictedValues == {"X"}
\* the gold_label_type names _print_predictions may be asked for
GoldLabelTypes == {"pos", "ner"}

\* the label dictionaries a token may carry: label type -> value, defined
\* only on the types the token has a label under
TokenLabels ==
    { l \in UNION { [D -> GoldValues \cup PredictedValues] : D \in SUBSET {"pos", "predicted"} } :
        /\ ("pos" \in DOMAIN l => l["pos"] \in GoldValues)
        /\ ("predicted" \in DOMAIN l => l["predicted"] \in PredictedValues) }

\* ----------------------------------------------------------------- helpers
\* Python's None as a return value or field
NoneVal == [kind |-> "None"]
\* a dict without entries (also: a token without embeddings)
EmptyDict == [k \in {} |-> 0]

RECURSIVE SumSeq(_)
\* the sum of a sequence of numbers
SumSeq(s) == IF s = <<>> THEN 0 ELSE Head(s) + SumSeq(Tail(s))

\* the token counts c1..cN a batch may have
Shapes ==
    UNION { { c \in [1..n -> 0..MaxTokens] : SumSeq(c) <= MaxTokens } : n \in 0..MaxSentences }

\* the batch of shape c: tokens are numbered as they are created, sentence
\* by sentence
BatchOf(c) ==
    [s \in 1..Len(c) |-> [t \in 1..c[s] |-> SumSeq(SubSeq(c, 1, s - 1)) + t]]

VARIABLES
    ctor,       \* the arguments the constructor was called with
    self,       \* the WordTagger instance: its three stored fields
    sentences,  \* the batch: a sequence of sentences, each a sequence of token ids
    tok,        \* the heap of tokens: id -> [text, labels, emb]
    op,         \* the operation whose result the caller holds, "idle" between calls
    arg,        \* its argument besides the batch (gold_label_type), else ""
    ret,        \* what it returned (NoneVal when it raised)
    exc,        \* the exception it raised, "" when it returned
    fault,      \* what the collaborators did in it: -1 worked, 0 embed raised,
                \* k > 0 the k-th get_embedding raised
    log         \* the calls it made on the embedding provider, in order

vars == <<ctor, self, sentences, tok, op, arg, ret, exc, fault, log>>

\* the token ids of the batch
TokenIds == DOMAIN tok

\* ------------------------------------------------- flair.data (collaborators)
\* Token.get_labels(typename): the labels of that type, in order
get_labels(token, typename) ==
    IF typename \in DOMAIN token.labels THEN <<token.labels[typename]>> ELSE <<>>

\* Token.get_label(label_type, zero_tag_value="O"): the first label of that
\* type, else a fresh Label holding zero_tag_value that is attached to nothing
get_label(token, label_type, zero_tag_value) ==
    IF Len(get_labels(token, label_type)) = 0
    THEN [value |-> zero_tag_value]
    ELSE [value |-> get_labels(token, label_type)[1]]

\* the default of get_label's zero_tag_value parameter
DefaultZeroTag == "O"

\* TokenEmbeddings.get_names(): the names the provider stores vectors under
get_names(embeddings) == <<embeddings>>

\* the vector a provider computes for a token
Vector(name, id) == <<name, Texts[id]>>

\* TokenEmbeddings.embed(sentences): attaches to every token of every sentence
\* the provider's vector under the provider's name
embed(embeddings, sents, tk) ==
    [id \in DOMAIN tk |->
        IF \E s \in 1..Len(sents) : \E t \in 1..Len(sents[s]) : sents[s][t] = id
        THEN [tk[id] EXCEPT !.emb =
                [n \in DOMAIN tk[id].emb \cup {embeddings} |->
                    IF n = embeddings THEN Vector(embeddings, id) ELSE tk[id].emb[n]]]
        ELSE tk[id]]

RECURSIVE CatNames(_, _)
\* Token.get_embedding(names): the token's vectors under these names, concatenated
CatNames(token, names) ==
    IF names = <<>> THEN <<>>
    ELSE (IF Head(names) \in DOMAIN token.emb THEN token.emb[Head(names)] ELSE <<>>)
         \o CatNames(token, Tail(names))

get_embedding(token, names) == CatNames(token, names)

\* torch.stack(tensors): raises on an empty list and on tensors of unequal
\* size, else the tensor whose row i is tensors[i]
stack(tensors) ==
    IF tensors = <<>> THEN [exc |-> "RuntimeError", ret |-> NoneVal]
    ELSE IF \E i, j \in 1..Len(tensors) : Len(tensors[i]) /= Len(tensors[j])
    THEN [exc |-> "RuntimeError", ret |-> NoneVal]
    ELSE [exc |-> "", ret |-> [kind |-> "tensor", rows |-> tensors]]

\* ------------------------------------------------------------- WordTagger
\* a slip: the tag dictionary is stored as the tag type
WordTagger_init_Mixed(embeddings, tag_dictionary, tag_type) ==
    [embeddings |-> embeddings, label_dictionary |-> tag_dictionary, tag_type |-> tag_dictionary]

\* __init__: label_dictionary is stored by the base class, embeddings and
\* tag_type by WordTagger
WordTagger_init(embeddings, tag_dictionary, tag_type) ==
    [embeddings |-> embeddings, label_dictionary |-> tag_dictionary, tag_type |-> tag_type]

\* the property label_type
label_type(this) == this.tag_type

RECURSIVE AllTokensFromSecond(_)
\* a slip: the comprehension runs over sentences[1:], and loses the first sentence
AllTokensFromSecond(sents) ==
    IF sents = <<>> THEN <<>>
    ELSE IF Len(sents) = 1 THEN <<>>
    ELSE Head(Tail(sents)) \o AllTokensFromSecond(<<(<<>>)>> \o Tail(Tail(sents)))

RECURSIVE AllTokens(_)
\* [token for sentence in sentences for token in sentence]
AllTokens(sents) ==
    IF sents = <<>> THEN <<>> ELSE Head(sents) \o AllTokens(Tail(sents))

RECURSIVE ExtendLoopInFront(_, _)
\* a slip: each sentence's tokens are put in front of those collected so far
ExtendLoopInFront(tokens, sents) ==
    IF sents = <<>> THEN tokens ELSE ExtendLoopInFront(Head(sents) \o tokens, Tail(sents))

RECURSIVE ExtendLoop(_, _)
\* for sentence in sentences: tokens.extend(sentence)
ExtendLoop(tokens, sents) ==
    IF sents = <<>> THEN tokens ELSE ExtendLoop(tokens \o Head(sents), Tail(sents))

\* a slip: the values of get_labels(type) instead of get_label(type).value, so
\* a token without a label gets the entry []
WordTagger_get_labels_NoDefault(this, sents, tk) ==
    LET all_tokens == AllTokens(sents)
    IN  [ret |-> [kind |-> "list",
                  items |-> [i \in 1..Len(all_tokens) |->
                      get_labels(tk[all_tokens[i]], label_type(this))]],
         exc |-> "", log |-> <<>>, tok |-> tk]

\* a slip: _get_labels embeds the sentences before it reads the labels
WordTagger_get_labels_Embedding(this, sents, tk) ==
    LET all_tokens == AllTokens(sents)
    IN  [ret |-> [kind |-> "list",
                  items |-> [i \in 1..Len(all_tokens) |->
                      <<get_label(tk[all_tokens[i]], label_type(this), "O").value>>]],
         exc |-> "", log |-> <<[call |-> "embed", token |-> 0]>>,
         tok |-> embed(this.embeddings, sents, tk)]

\* _get_labels: [[token.get_label(self.label_type).value] for token in all_tokens]
WordTagger_get_labels(this, sents, tk) ==
    LET all_tokens == AllTokens(sents)
    IN  [ret |-> [kind |-> "list",
                  items |-> [i \in 1..Len(all_tokens) |->
                      <<get_label(tk[all_tokens[i]], label_type(this), DefaultZeroTag).value>>]],
         exc |-> "", log |-> <<>>, tok |-> tk]

\* _get_prediction_data_points: the tokens themselves (their ids), flattened
WordTagger_get_prediction_data_points(this, sents, tk) ==
    [ret |-> [kind |-> "list", items |-> ExtendLoop(<<>>, sents)],
     exc |-> "", log |-> <<>>, tok |-> tk]

\* the calls a WordTagger makes on its embedding provider and on the tokens'
\* embeddings, as they are logged
EmbedCall == [call |-> "embed", token |-> 0]
NamesCall == [call |-> "get_names", token |-> 0]
ReadCall(id) == [call |-> "get_embedding", token |-> id]

\* the reads [token.get_embedding(names) for token in all_tokens] makes
\* before it stops: all of them (failAt < 0), else those up to the failAt-th
ReadsDone(all_tokens, failAt) ==
    IF failAt < 0 THEN all_tokens ELSE SubSeq(all_tokens, 1, failAt)

\* a slip: embed is tried a second time when it raises
WordTagger_prepare_tensors_Retry(this, sents, tk, failAt) ==
    IF failAt = 0
    THEN [ret |-> NoneVal, exc |-> "EmbedError", log |-> <<EmbedCall, EmbedCall>>, tok |-> tk]
    ELSE LET tk1 == embed(this.embeddings, sents, tk)
             all_tokens == AllTokens(sents)
             names == get_names(this.embeddings)
             reads == ReadsDone(all_tokens, failAt)
             calls == <<EmbedCall, NamesCall>> \o [i \in 1..Len(reads) |-> ReadCall(reads[i])]
             all_embeddings == [i \in 1..Len(all_tokens) |-> get_embedding(tk1[all_tokens[i]], names)]
             embedded_tokens == stack(all_embeddings)
         IN  IF failAt > 0
             THEN [ret |-> NoneVal, exc |-> "ReadError", log |-> calls, tok |-> tk1]
             ELSE [ret |-> embedded_tokens.ret, exc |-> embedded_tokens.exc, log |-> calls, tok |-> tk1]

\* _prepare_tensors. failAt is what the collaborators do in this call:
\* -1 nothing fails, 0 embed raises (before it attaches anything), k > 0 the
\* k-th get_embedding raises
WordTagger_prepare_tensors(this, sents, tk, failAt) ==
    IF failAt = 0
    THEN [ret |-> NoneVal, exc |-> "EmbedError", log |-> <<EmbedCall>>, tok |-> tk]
    ELSE LET tk1 == embed(this.embeddings, sents, tk)
             all_tokens == AllTokens(sents)
             names == get_names(this.embeddings)
             reads == ReadsDone(all_tokens, failAt)
             calls == <<EmbedCall, NamesCall>> \o [i \in 1..Len(reads) |-> ReadCall(reads[i])]
             all_embeddings == [i \in 1..Len(all_tokens) |-> get_embedding(tk1[all_tokens[i]], names)]
             embedded_tokens == stack(all_embeddings)
         IN  IF failAt > 0
             THEN [ret |-> NoneVal, exc |-> "ReadError", log |-> calls, tok |-> tk1]
             ELSE [ret |-> embedded_tokens.ret, exc |-> embedded_tokens.exc, log |-> calls, tok |-> tk1]

\* a slip: "_" instead of "O" as the value of a missing label
eval_line_Underscore(token, gold_label_type) ==
    token.text \o " " \o get_label(token, gold_label_type, "_").value \o " "
        \o get_label(token, "predicted", "_").value \o "\n"

\* the f-string of _print_predictions for one token
eval_line(token, gold_label_type) ==
    token.text \o " " \o get_label(token, gold_label_type, "O").value \o " "
        \o get_label(token, "predicted", "O").value \o "\n"

\* a slip: no blank line after the datapoint's lines
DatapointLines_NoBlank(datapoint, tk, gold_label_type) ==
    [t \in 1..Len(datapoint) |-> eval_line(tk[datapoint[t]], gold_label_type)]

\* the lines of one datapoint: one per token, then "\n"
DatapointLines(datapoint, tk, gold_label_type) ==
    [t \in 1..Len(datapoint) |-> eval_line(tk[datapoint[t]], gold_label_type)] \o <<"\n">>

RECURSIVE BatchLines(_, _, _)
\* the loop over the batch of _print_predictions
BatchLines(batch, tk, gold_label_type) ==
    IF batch = <<>> THEN <<>>
    ELSE DatapointLines(Head(batch), tk, gold_label_type)
         \o BatchLines(Tail(batch), tk, gold_label_type)

\* a slip: a missing label is set on the token as "O" (a set-default) rather
\* than only shown as "O"
WordTagger_print_predictions_Attaching(this, batch, tk, gold_label_type) ==
    [ret |-> [kind |-> "list", items |-> BatchLines(batch, tk, gold_label_type)],
     exc |-> "", log |-> <<>>,
     tok |-> [id \in DOMAIN tk |->
                [tk[id] EXCEPT !.labels =
                    [typ \in DOMAIN tk[id].labels \cup {gold_label_type, "predicted"} |->
                        get_label(tk[id], typ, "O").value]]]]

\* _print_predictions
WordTagger_print_predictions(this, batch, tk, gold_label_type) ==
    [ret |-> [kind |-> "list", items |-> BatchLines(batch, tk, gold_label_type)],
     exc |-> "", log |-> <<>>, tok |-> tk]

\* {**a, **b}: b's entries override a's
DictMerge(a, b) ==
    [k \in DOMAIN a \cup DOMAIN b |-> IF k \in DOMAIN b THEN b[k] ELSE a[k]]

\* dict.get(key): None for a missing key
DictGet(d, key) == IF key \in DOMAIN d THEN d[key] ELSE "None"

\* flair.nn.Model._get_state_dict: the base classifier's fields
Super_get_state_dict(this) == [k \in {"state_dict"} |-> "weights"]

\* _get_state_dict
WordTagger_get_state_dict(this) ==
    DictMerge(Super_get_state_dict(this),
              [k \in {"embeddings", "tag_dictionary", "tag_type"} |->
                  CASE k = "embeddings" -> this.embeddings
                    [] k = "tag_dictionary" -> this.label_dictionary
                    [] k = "tag_type" -> this.tag_type])

\* flair.nn.Model._init_model_with_state_dict(state, **kwargs): cls(**kwargs),
\* then the weights are loaded
Super_init_model_with_state_dict(state, kwargs) ==
    WordTagger_init(kwargs.embeddings, kwargs.tag_dictionary, kwargs.tag_type)

\* a slip: the tag type is looked up under the key "label_type"
WordTagger_init_model_with_state_dict_WrongKey(state) ==
    Super_init_model_with_state_dict(state,
        [embeddings |-> DictGet(state, "embeddings"),
         tag_dictionary |-> DictGet(state, "tag_dictionary"),
         tag_type |-> DictGet(state, "label_type")])

\* _init_model_with_state_dict
WordTagger_init_model_with_state_dict(state) ==
    Super_init_model_with_state_dict(state,
        [embeddings |-> DictGet(state, "embeddings"),
         tag_dictionary |-> DictGet(state, "tag_dictionary"),
         tag_type |-> DictGet(state, "tag_type")])

Init ==
    /\ \E e \in Providers, d \in Dictionaries, t \in TagTypes :
        /\ ctor = [embeddings |-> e, tag_dictionary |-> d, tag_type |-> t]
        /\ self = WordTagger_init(e, d, t)
    /\ \E c \in Shapes :
        /\ sentences = BatchOf(c)
        /\ \E ls \in [1..SumSeq(c) -> TokenLabels] :
            tok = [id \in 1..SumSeq(c) |-> [text |-> Texts[id], labels |-> ls[id], emb |-> EmptyDict]]
    /\ op = "__init__"
    /\ arg = ""
    /\ ret = NoneVal
    /\ exc = ""
    /\ fault = -1
    /\ log = <<>>

\* the effect of a call that leaves the instance and the batch's lists alone;
\* the component is single-threaded: a call starts when none is under way
Called(name, a, f, r) ==
    /\ op = "idle"
    /\ op' = name
    /\ arg' = a
    /\ fault' = f
    /\ ret' = r.ret
    /\ exc' = r.exc
    /\ log' = r.log
    /\ tok' = r.tok
    /\ UNCHANGED <<ctor, self, sentences>>

GetLabels == Called("_get_labels", "", -1, WordTagger_get_labels(self, sentences, tok))

GetPredictionDataPoints ==
    Called("_get_prediction_data_points", "", -1, WordTagger_get_prediction_data_points(self, sentences, tok))

PrepareTensors ==
    \E failAt \in -1..Len(AllTokens(sentences)) :
        Called("_prepare_tensors", "", failAt, WordTagger_prepare_tensors(self, sentences, tok, failAt))

PrintPredictions ==
    \E gold_label_type \in GoldLabelTypes :
        Called("_print_predictions", gold_label_type, -1,
               WordTagger_print_predictions(self, sentences, tok, gold_label_type))

GetStateDict ==
    Called("_get_state_dict", "", -1,
           [ret |-> [kind |-> "dict", items |-> WordTagger_get_state_dict(self)],
            exc |-> "", log |-> <<>>, tok |-> tok])

\* the saved state of this instance is loaded into a new instance
InitModelWithStateDict ==
    Called("_init_model_with_state_dict", "", -1,
           [ret |-> [kind |-> "model",
                     model |-> WordTagger_init_model_with_state_dict(WordTagger_get_state_dict(self))],
            exc |-> "", log |-> <<>>, tok |-> tok])

\* the caller has taken the result of the last call (for __init__: the
\* instance) and may call again
Return ==
    /\ op /= "idle"
    /\ op' = "idle"
    /\ arg' = ""
    /\ ret' = NoneVal
    /\ exc' = ""
    /\ fault' = -1
    /\ log' = <<>>
    /\ UNCHANGED <<ctor, self, sentences, tok>>

Next ==
    \/ Return
    \/ PrepareTensors
    \/ GetLabels
    \/ GetPredictionDataPoints
    \/ PrintPredictions
    \/ GetStateDict
    \/ InitModelWithStateDict

Spec == Init /\ [][Next]_vars

\* ------------------------------------------------------------------ claims
\* the token counts c1..cN of the batch
Counts == [s \in 1..Len(sentences) |-> Len(sentences[s])]
\* c1 + ... + cN
Total == SumSeq(Counts)
\* the tokens of the sentences before sentence s
Before(s) == SumSeq(SubSeq(Counts, 1, s - 1))
\* the places of the batch: sentence s, token t
Places == { p \in (1..Len(sentences)) \X (1..MaxTokens) : p[2] <= Len(sentences[p[1]]) }
\* the last call met no failing collaborator
NoFault == fault = -1
\* what a label column shows for a token: its label's value, "O" without one
Shown(id, typ) == IF typ \in DOMAIN tok[id].labels THEN tok[id].labels[typ] ELSE "O"

\* C1 as stated: for ANY batch, _prepare_tensors (its collaborators working)
\* returns a tensor of c1+...+cN rows, and _get_labels and
\* _get_prediction_data_points return lists of c1+...+cN entries.
C1_AnyBatch ==
    /\ (op = "_prepare_tensors" /\ NoFault) =>
            (exc = "" /\ ret.kind = "tensor" /\ Len(ret.rows) = Total)
    /\ op = "_get_labels" => Len(ret.items) = Total
    /\ op = "_get_prediction_data_points" => Len(ret.items) = Total

\* C1 amended: for any batch with at least one token, _prepare_tensors (its
\* collaborators working) returns a tensor of c1+...+cN rows, and every tensor
\* it returns has that many; for any batch at all, _get_labels and
\* _get_prediction_data_points return lists of c1+...+cN entries.
C1_Counts ==
    /\ (op = "_prepare_tensors" /\ NoFault /\ Total >= 1) =>
            (exc = "" /\ ret.kind = "tensor" /\ Len(ret.rows) = Total)
    /\ (op = "_prepare_tensors" /\ ret.kind = "tensor") => Len(ret.rows) = Total
    /\ op = "_get_labels" => (ret.kind = "list" /\ Len(ret.items) = Total)
    /\ op = "_get_prediction_data_points" => (ret.kind = "list" /\ Len(ret.items) = Total)

C1_Witness ==
    /\ op = "_prepare_tensors"
    /\ Counts = <<2, 1>>
    /\ ret.kind = "tensor"
    /\ Len(ret.rows) = 3

\* C2: the three operations flatten sentence-major / token-minor: the entry at
\* index (tokens before sentence s) + t is, for the prediction targets, the
\* t-th token of sentence s itself; for the labels, the one-element list of
\* that token's gold value; for the tensor, that token's embedding. The batch
\* [[The, cat], [sat]] flattens to The, cat, sat.
C2_SameOrder ==
    /\ op = "_get_prediction_data_points" =>
        /\ \A p \in Places : ret.items[Before(p[1]) + p[2]] = sentences[p[1]][p[2]]
        /\ Counts = <<2, 1>> =>
                [i \in 1..Len(ret.items) |-> tok[ret.items[i]].text] = <<"The", "cat", "sat">>
    /\ op = "_get_labels" =>
        \A p \in Places :
            ret.items[Before(p[1]) + p[2]] = <<Shown(sentences[p[1]][p[2]], self.tag_type)>>
    /\ (op = "_prepare_tensors" /\ ret.kind = "tensor") =>
        \A p \in Places :
            ret.rows[Before(p[1]) + p[2]] = tok[sentences[p[1]][p[2]]].emb[self.embeddings]

C2_Witness ==
    /\ op = "_get_prediction_data_points"
    /\ Counts = <<2, 1>>
    /\ [i \in 1..Len(ret.items) |-> tok[ret.items[i]].text] = <<"The", "cat", "sat">>

\* the index of the line before the lines of sentence s in the report
LinesBefore(s) == Before(s) + (s - 1)

\* C3: the report holds, sentence by sentence, one line "<text> <gold>
\* <predicted>" per token in token order and then one blank line, also after
\* the last sentence: c1+...+cN token lines and N blank lines in all; tokens
\* labelled X and predicted X read "<text> X X".
C3_Report ==
    op = "_print_predictions" =>
        /\ Len(ret.items) = Total + Len(sentences)
        /\ \A p \in Places :
            LET id == sentences[p[1]][p[2]]
                line == ret.items[LinesBefore(p[1]) + p[2]]
            IN  /\ line = tok[id].text \o " " \o Shown(id, arg) \o " " \o Shown(id, "predicted") \o "\n"
                /\ (Shown(id, arg) = "X" /\ Shown(id, "predicted") = "X") =>
                        line = tok[id].text \o " X X\n"
        /\ \A s \in 1..Len(sentences) :
            ret.items[LinesBefore(s) + Len(sentences[s]) + 1] = "\n"
        /\ Cardinality({ i \in 1..Len(ret.items) : ret.items[i] = "\n" }) = Len(sentences)

C3_Witness ==
    /\ op = "_print_predictions"
    /\ arg = "pos"
    /\ Counts = <<2, 1>>
    /\ ret.items = <<"The X X\n", "cat X X\n", "\n", "sat X X\n", "\n">>

\* C4: a token without a label of the requested gold type shows "O" in the
\* gold column, one without a "predicted" label shows "O" in the predicted
\* column, one with neither reads "<text> O O"; the call does not raise.
C4_DefaultO ==
    op = "_print_predictions" =>
        /\ exc = ""
        /\ \A p \in Places :
            LET id == sentences[p[1]][p[2]]
                line == ret.items[LinesBefore(p[1]) + p[2]]
                gold == IF arg \in DOMAIN tok[id].labels THEN tok[id].labels[arg] ELSE "O"
                pred == IF "predicted" \in DOMAIN tok[id].labels
                        THEN tok[id].labels["predicted"] ELSE "O"
            IN  /\ arg \notin DOMAIN tok[id].labels =>
                        line = tok[id].text \o " O " \o pred \o "\n"
                /\ "predicted" \notin DOMAIN tok[id].labels =>
                        line = tok[id].text \o " " \o gold \o " O\n"
                /\ DOMAIN tok[id].labels \cap {arg, "predicted"} = {} =>
                        line = tok[id].text \o " O O\n"

C4_Witness ==
    /\ op = "_print_predictions"
    /\ arg = "pos"
    /\ Counts = <<2, 1>>
    /\ DOMAIN tok[1].labels = {}
    /\ DOMAIN tok[2].labels = {"pos"}
    /\ DOMAIN tok[3].labels = {"predicted"}
    /\ ret.items = <<"The O O\n", "cat X O\n", "\n", "sat O X\n", "\n">>

\* C5: _get_labels gives ["O"] for a token without a label of the configured
\* type and does not raise, so the list keeps one entry per token.
C5_MissingGold ==
    op = "_get_labels" =>
        /\ exc = ""
        /\ Len(ret.items) = Total
        /\ \A p \in Places :
            self.tag_type \notin DOMAIN tok[sentences[p[1]][p[2]]].labels =>
                ret.items[Before(p[1]) + p[2]] = <<"O">>

C5_Witness ==
    /\ op = "_get_labels"
    /\ self.tag_type = "pos"
    /\ Counts = <<2, 1>>
    /\ DOMAIN tok[2].labels = {"predicted"}
    /\ ret.items = <<(<<"X">>), (<<"O">>), (<<"X">>)>>

\* C6: label_type is the tag_type the constructor was given, and the stored
\* embedding provider and tag dictionary are the ones it was given, whatever
\* calls have been made since.
C6_Configuration ==
    /\ label_type(self) = ctor.tag_type
    /\ self.embeddings = ctor.embeddings
    /\ self.label_dictionary = ctor.tag_dictionary

C6_Witness ==
    /\ op = "_print_predictions"
    /\ Total >= 1
    /\ \A id \in TokenIds : self.embeddings \in DOMAIN tok[id].emb
    /\ ctor.tag_type = "ner"
    /\ label_type(self) = "ner"

\* C7: the tagger built from the state dict of a tagger has that tagger's
\* embedding provider, tag dictionary and tag type, and its own state dict
\* holds the same values under "embeddings", "tag_dictionary" and "tag_type".
C7_RoundTrip ==
    op = "_init_model_with_state_dict" =>
        /\ ret.kind = "model"
        /\ ret.model.embeddings = self.embeddings
        /\ ret.model.label_dictionary = self.label_dictionary
        /\ ret.model.tag_type = self.tag_type
        /\ \A k \in {"embeddings", "tag_dictionary", "tag_type"} :
            DictGet(WordTagger_get_state_dict(ret.model), k) = DictGet(WordTagger_get_state_dict(self), k)
        /\ DictGet(WordTagger_get_state_dict(ret.model), "embeddings") = ctor.embeddings
        /\ DictGet(WordTagger_get_state_dict(ret.model), "tag_dictionary") = ctor.tag_dictionary
        /\ DictGet(WordTagger_get_state_dict(ret.model), "tag_type") = ctor.tag_type

C7_Witness ==
    /\ op = "_init_model_with_state_dict"
    /\ ret.kind = "model"
    /\ self.tag_type = "ner"
    /\ WordTagger_get_state_dict(ret.model)["tag_type"] = "ner"

\* C8: _print_predictions leaves the batch as it was: the same sentences of
\* the same tokens, every token with the same text, labels and embeddings;
\* no "O" label is attached to a token that had none.
C8_PrintFrame ==
    [][op' = "_print_predictions" => (sentences' = sentences /\ tok' = tok)]_vars

C8_Witness ==
    /\ op = "_print_predictions"
    /\ arg = "pos"
    /\ Counts = <<2, 1>>
    /\ ret.items[1] = "The O O\n"
    /\ DOMAIN tok[1].labels = {}

\* the places of the calls `call` in the log
CallsAt(call) == { i \in 1..Len(log) : log[i].call = call }

\* C9: a call of _prepare_tensors calls embed once, first; when embed or a
\* get_embedding raises, that exception leaves the call, nothing is returned,
\* nothing more is asked of the collaborators and embed is not called again.
C9_FailFast ==
    op = "_prepare_tensors" =>
        /\ CallsAt("embed") = {1}
        /\ \A i \in CallsAt("get_embedding") : i > 1
        /\ fault = 0 => (exc = "EmbedError" /\ ret = NoneVal /\ log = <<EmbedCall>>)
        /\ fault > 0 =>
            /\ exc = "ReadError"
            /\ ret = NoneVal
            /\ Cardinality(CallsAt("get_embedding")) = fault
            /\ log[Len(log)] = ReadCall(AllTokens(sentences)[fault])
        /\ exc /= "" => ret = NoneVal

C9_Witness ==
    /\ op = "_prepare_tensors"
    /\ Counts = <<2, 1>>
    /\ fault = 2
    /\ exc = "ReadError"
    /\ log = <<EmbedCall, NamesCall, ReadCall(1), ReadCall(2)>>

\* C10: only _prepare_tensors calls the embedding provider; _get_labels and
\* _get_prediction_data_points leave sentences and tokens as they were, and
\* what they return for the batch is the same before and after a call of
\* _prepare_tensors.
C10_OnlyPrepareEmbeds ==
    [][/\ op' /= "_prepare_tensors" => CallsAt("embed")' = {}
       /\ op' \in {"_get_labels", "_get_prediction_data_points"} =>
            (sentences' = sentences /\ tok' = tok /\ log' = <<>>)
       /\ op' = "_prepare_tensors" =>
            /\ WordTagger_get_labels(self', sentences', tok').ret
                    = WordTagger_get_labels(self, sentences, tok).ret
            /\ WordTagger_get_prediction_data_points(self', sentences', tok').ret
                    = WordTagger_get_prediction_data_points(self, sentences, tok).ret]_vars

C10_Witness ==
    /\ op = "_get_labels"
    /\ Counts = <<2, 1>>
    /\ \A id \in TokenIds : self.embeddings \in DOMAIN tok[id].emb
    /\ ret.items = <<(<<"X">>), (<<"O">>), (<<"X">>)>>
    /\ log = <<>>

====
